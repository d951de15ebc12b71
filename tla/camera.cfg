\* A client changes the resolution or sets controls while the camera runs.
SPECIFICATION FairSpec
CONSTANTS
    alice = alice
    Cam = Cam
    gain = gain
    focus = focus
    Commanders <- MCCommanders
    Controls <- MCControls
    UserClass <- MCUserClass
    First = focus
    MaxSize = 2
    Start = 1
    DvTimings = TRUE
    MaxValue = 1
CHECK_DEADLOCK FALSE
INVARIANTS
    OnlyOverlapsHarm
    StreamsWhole
    ControlsShown
PROPERTIES
    CancelEnds
    StopEnds
