\* Stills and video, pictures of up to two parts, two buffers, one output.
SPECIFICATION FairSpec
CONSTANTS
    o1 = o1
    o2 = o2
    Encoder = Encoder
    NoThread = NoThread
    Outputs <- MCOne
    NBuffers = 2
    MaxParts = 2
    MaxFaults = 1
CHECK_DEADLOCK FALSE
INVARIANTS
    BuffersAccounted
    HandedWhole
    LockedWithinPicture
PROPERTIES
    StopEnds
