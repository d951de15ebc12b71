\* Start-up and shutdown with every pair of outputs.
SPECIFICATION FairSpec
CONSTANTS
    carol = carol
    Cam = Cam
    NoThread = NoThread
    NIn = 1
    NOut = 2
    Clients <- MCClients
CHECK_DEADLOCK FALSE
INVARIANTS
    DiesOnlyOf
    OneAtThePicture
PROPERTIES
    SignalEnds
