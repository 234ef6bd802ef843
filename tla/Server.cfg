CONSTANTS
    c1 = c1
    c2 = c2
    t1 = t1
    pub = pub
    guarded = guarded
    other = other
    refl = refl
    Calls = {c1, c2}
    Tokens = {t1}
    Exp <- MCExp
    TTL = 1
    MaxSize = 1
    CacheMaxEntries = 1
    TransportErrorTTL = 1
    OwnErrors = {"ErrForbidden", "NotFound"}
    MaxTime = 2
    NoCall = NoCall
    NoToken = NoToken
    Configs <- MCConfigs
    ClaimSets <- MCClaims
    Methods = {pub, guarded, other, refl}
    Reflection = {refl}
    NoMethod = NoMethod
    NilPolicy = NilPolicy
SPECIFICATION ServerSpec
SYMMETRY Symmetry
INVARIANTS
    ServerTypeOK
    GuardedNeverAnonymous
    ClaimsAreConfirmed
PROPERTY
    KeepsPromise
