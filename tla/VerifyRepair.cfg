CONSTANTS
    o1 = o1
    n1 = n1
    n2 = n2
    p1 = p1
    r1 = r1
    r2 = r2
    a1 = a1
    w1 = w1
    Ops = {o1}
    Projects = {p1}
    Requests <- FewRequests
    Usernames = {n1, n2}
    NoProject = NoProject
    None = None
    PageSize = 5
    PartialDelete = TRUE
    Foreign <- OneForeign
    MaxId = 4
    Inputs <- FewInputs
    lookupPageSize = 1
    totals = "exact"
    max = 1
    MaxEdits = 1
SPECIFICATION VerSpec
INVARIANT
    RepairsExactly
