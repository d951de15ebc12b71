\* A ring of one picture that may exceed by one, with a taker, a restart and
\* a clock that is set back once.
SPECIFICATION Spec
CONSTANTS
    t1 = t1
    Takers = {t1}
    Size = 1
    Exceed = 1
    Bytes <- MCBytes
    Slack = 1
    MaxPictures = 3
    MaxTime = 2
    MaxBack = 1
    MaxRestarts = 1
INVARIANTS
    RingBounded
    LinkNotEmpty
    
PROPERTIES
    KeepsNewest
CHECK_DEADLOCK FALSE
