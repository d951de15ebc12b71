\* Everything that may go wrong, with three consumers of different kinds.
SPECIFICATION Spec
CONSTANTS
    snap = snap
    strm = strm
    work = work
    Cam = Cam
    NoThread = NoThread
    Snapshots <- MCNoThreads
    Streams <- MCStreams
    Workers <- MCWorkers
    MaxGrabs = 4
    Kinds = {"jpeg", "noSof"}
    Every = 2
    FramePeriod = 1
    DropSmall = TRUE
    WantTimestamp = TRUE
    EmptyBuffers = TRUE
    SpuriousWakeups = TRUE
CHECK_DEADLOCK FALSE
INVARIANTS
    TypeOK
    WholePicture
PROPERTIES
    NeverGoesBack
