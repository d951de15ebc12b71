\* All targets, lost subprocesses, a killed Node.
SPECIFICATION FairControllerSpec
CONSTANTS
    Span = 1
    Azimuth <- MCAzimuth
    Elevation <- MCElevation
    LaserDefault = "off"
    MaxPipe = 2
CHECK_DEADLOCK FALSE
INVARIANTS
    ControllerTypeOK
    NothingLost
PROPERTIES
    Follows
