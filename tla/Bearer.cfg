CONSTANTS
    MaxRunes = 2
    MaxValues = 2
SPECIFICATION Spec
CHECK_DEADLOCK FALSE
INVARIANTS
    TokenIsTheClients
    CleanTokenArrives
    AcceptedIsClean
