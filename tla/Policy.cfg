CONSTANTS
    e1 = e1
    e2 = e2
    a = a
    b = b
    Errors = {e1, e2}
    Forbidden = e1
    Allow = Allow
    NilFunc = NilFunc
    Running = Running
    Star = Star
    MaxPolicies = 4
    Letters = {a, b}
    MaxLen = 3
    MaxPatterns = 1
SPECIFICATION Spec
CHECK_DEADLOCK FALSE
INVARIANTS
    AllIsConjunction
    AnyIsDisjunction
    ShortCircuit
    StrictMeansCovered
    RevokingNeverGrants
