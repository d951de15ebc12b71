\* Pictures of all lengths around what fits the buffer.
SPECIFICATION ProxySpec
CONSTANTS
    MaxFrame = 4
    Frames <- MCFrames
    BufferSize = 10
CHECK_DEADLOCK FALSE
INVARIANTS
    LengthNeverNegative
    WholeImages
    EveryFrameArrives
