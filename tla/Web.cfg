CONSTANTS
    o1 = o1
    o2 = o2
    Ops = {o1, o2}
    Requests <- MCRequests
    Edits <- MCEdits
    None = None
    Invalid = Invalid
    Paths = {1, 2}
    MaxApps = 2
SPECIFICATION Spec
SYMMETRY Symmetry
INVARIANT
    EnsuredIsInPlace
PROPERTIES
    UpdatesOnlyDrift
    WritesAreSafe
