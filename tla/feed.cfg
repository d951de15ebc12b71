\* Refinement and liveness: wakeups only by a broadcast, no empty buffers.
SPECIFICATION FairSpec
CONSTANTS
    snap = snap
    strm = strm
    work = work
    Cam = Cam
    NoThread = NoThread
    Snapshots <- MCSnapshots
    Streams <- MCStreams
    Workers <- MCNoThreads
    MaxGrabs = 2
    Kinds = {"jpeg", "small"}
    Every = 1
    FramePeriod = 0
    DropSmall = TRUE
    WantTimestamp = FALSE
    EmptyBuffers = FALSE
    SpuriousWakeups = FALSE
CHECK_DEADLOCK FALSE
INVARIANTS
    FreshFrame
PROPERTIES
    ImplementsFeed
    RequestAnswered
