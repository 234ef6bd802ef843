CONSTANTS
    o1 = o1
    o2 = o2
    n1 = n1
    p1 = p1
    p2 = p2
    r1 = r1
    r2 = r2
    a1 = a1
    w1 = w1
    w2 = w2
    Ops = {o1, o2}
    Projects = {p1, p2}
    Requests <- MCAll
    Usernames = {n1}
    NoProject = NoProject
    None = None
    PageSize = 5
    PartialDelete = TRUE
    Foreign <- NoForeign
    MaxId = 4
SPECIFICATION Spec
SYMMETRY Symmetry
INVARIANTS
    AppliesWhatWasAsked
    RevokedHoldsNothing
    DeliveredStaysValid
PROPERTIES
    PasswordKept
    OnboardStaysInProject
