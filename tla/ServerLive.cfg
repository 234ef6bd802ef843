CONSTANTS
    c1 = c1
    c2 = c2
    t1 = t1
    pub = pub
    guarded = guarded
    other = other
    refl = refl
    Calls = {c1, c2}
    Tokens = {t1}
    Exp <- MCExp
    TTL = 1
    MaxSize = 1
    CacheMaxEntries = 1
    TransportErrorTTL = 1
    OwnErrors = {}
    MaxTime = 2
    NoCall = NoCall
    NoToken = NoToken
    Configs <- MCLiveConfigs
    ClaimSets <- MCOneClaim
    Methods = {pub, guarded}
    Reflection = {}
    NoMethod = NoMethod
    NilPolicy = NilPolicy
SPECIFICATION FairServerSpec
PROPERTY
    EveryRPCDecided
