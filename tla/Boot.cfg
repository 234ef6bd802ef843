CONSTANTS
    o1 = o1
    o2 = o2
    p1 = p1
    p2 = p2
    r1 = r1
    r2 = r2
    ns1 = ns1
    ns2 = ns2
    bad = bad
    a1 = a1
    a2 = a2
    m1 = m1
    m2 = m2
    Ops = {o1, o2}
    Requests <- MCMany
    Namespaces = {ns1, ns2}
    ActionNames = {a1}
    NameOf <- MCColliding
    Manual = {m1}
    Projects = {p1}
    None = None
    FlowMayFail = TRUE
    ByHand = TRUE
    u1 = u1
    u2 = u2
    Script = o1
    SetupInput <- First
    specs <- MCSpecs
    Truncated = Truncated
SPECIFICATION SetupSpec
INVARIANTS
    BootstrapsCompletely
    FileIsUsable
PROPERTY
    WiringKeepsOthers
