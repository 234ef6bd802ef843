CONSTANTS
    o1 = o1
    o2 = o2
    p1 = p1
    p2 = p2
    r1 = r1
    r2 = r2
    ns1 = ns1
    ns2 = ns2
    bad = bad
    a1 = a1
    a2 = a2
    m1 = m1
    m2 = m2
    Ops = {o1}
    Requests <- MCBoth
    Namespaces = {ns1, ns2}
    ActionNames = {a1, a2}
    NameOf <- MCDistinct
    Manual = {m1}
    Projects = {p1}
    None = None
    FlowMayFail = FALSE
    ByHand = FALSE
SPECIFICATION Spec
PROPERTY
    RewiringIsIdempotent
