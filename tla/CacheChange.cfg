CONSTANTS
    c1 = c1
    c2 = c2
    c3 = c3
    t1 = t1
    t2 = t2
    t3 = t3
    Calls = {c1, c2}
    Tokens = {t1}
    Exp <- MCOneExp
    TTL = 1
    MaxSize = 1
    TransportErrorTTL = 1
    OwnErrors = {}
    MaxTime = 4
    NoCall = NoCall
    NoToken = NoToken
SPECIFICATION Spec
INVARIANT
    ChangeWithinTTL
