CONSTANTS
    e1 = e1
    e2 = e2
    e3 = e3
    Entries = {e1, e2, e3}
    Wanted = {e1, e2}
    lookupPageSize = 2
    ServerMax = {1, 3}
SPECIFICATION FairSpec
CHECK_DEADLOCK FALSE
INVARIANTS
    StayersSeenOnce
    AsIfAtOnce
PROPERTY
    WalkEnds
