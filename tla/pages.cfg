\* Two pages, their commands, failures and the idle handler.
SPECIFICATION FairServerSpec
CONSTANTS
    p = p
    q = q
    NoPage = NoPage
    Pages <- MCPages
    Span = 2
    Azimuth <- MCAzimuth
    Elevation <- MCElevation
    LaserDefault = "off"
    Pointer <- MCPointer
    Timeout = 1
    MaxUp = 2
    MaxGhosts = 1
CHECK_DEADLOCK FALSE
INVARIANTS
    ShowsWhatItCommanded
PROPERTIES
    SettlesWhenIdle
