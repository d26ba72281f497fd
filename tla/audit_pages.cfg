SPECIFICATION Spec
CONSTANTS
    Tenants = {a, b}
    Writers = {w1, w2}
    Readers = {r1}
    Ids = {1, 2, 3}
    Limits = {1, 2}
    MaxTime = 1
SYMMETRY SymmetryOfNames
INVARIANTS TypeOK WalksAreComplete TotalsAreReached ReadersStayInTheirTenant
