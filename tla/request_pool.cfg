SPECIFICATION Spec
CONSTANTS
    Requests = {r1, r2, r3, r4}
    Workers = 2
    PoolSize = 1
INVARIANTS TypeOK ConnectionsAreAccountedFor
PROPERTY EveryRequestIsAnswered
