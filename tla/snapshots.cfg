\* Two fetches outstanding, one page that decodes two pictures, two deaths. With the camera
\* lost all fetches hang, and the model, whose fetches are bounded, stops.
SPECIFICATION FairFeedSpec
CONSTANTS
    f1 = f1
    f2 = f2
    p1 = p1
    Fetches <- MCFetches
    Pages <- MCPages
    Last = 3
    MaxDecoding = 2
    MaxDeaths = 2
CHECK_DEADLOCK FALSE
INVARIANTS
    DrawsOnlyNewer
PROPERTIES
    PicturesKeepComing
