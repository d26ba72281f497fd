SPECIFICATION Spec
CONSTANTS
    Clients = {a, b}
    LoginLimit = 2
    RegisterLimit = 0
    RefreshLimit = 1
    WindowSeconds = 3
    TicksPerSecond = 2
    PruneThreshold = 2
    PruneAge = 4
    MaxTime = 8
SYMMETRY SymmetryOfClients
INVARIANT WithinLimit
