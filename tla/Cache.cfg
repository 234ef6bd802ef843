CONSTANTS
    c1 = c1
    c2 = c2
    c3 = c3
    t1 = t1
    t2 = t2
    t3 = t3
    Calls = {c1, c2}
    Tokens = {t1, t2}
    Exp <- MCExp
    TTL = 2
    MaxSize = 1
    TransportErrorTTL = 1
    OwnErrors = {}
    MaxTime = 4
    NoCall = NoCall
    NoToken = NoToken
SPECIFICATION Spec
SYMMETRY Symmetry
INVARIANTS
    OneFlight
    NoOrphan
    IntrospectsOnlyUncached
    BoundedStaleness
    NotPastExpiry
    NoRegression
    SizeBounded
