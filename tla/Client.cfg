CONSTANTS
    c1 = c1
    c2 = c2
    c3 = c3
    RPCs = {c1, c2}
    Lifetimes = {1, 3}
    Margin = 1
    MaxTime = 4
    MaxTokens = 2
    Nobody = Nobody
SPECIFICATION FairSpec
CHECK_DEADLOCK FALSE
INVARIANTS
    ExpiredOnlyIfSlow
    OneTokenInUse
PROPERTY
    CancelReleases
