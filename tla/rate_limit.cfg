SPECIFICATION Spec
CONSTANTS
    Clients = {a, b}
    LoginLimit = 2
    RegisterLimit = 0
    RefreshLimit = 1
    WindowSeconds = 2
    TicksPerSecond = 2
    PruneThreshold = 2
    PruneAge = 5
    MaxTime = 8
SYMMETRY SymmetryOfClients
INVARIANTS CountersOK RetryAfterIsTight WithinLimit
PROPERTY KeepsPromise
