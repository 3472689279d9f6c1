SPECIFICATION Spec
CONSTANTS
    Handles = {h1, h2}
    Jobs = {j1, j2}
    NoJob = NoJob
    Apps = {a1, a2}
    Recs = {r1, r2}
    Null = Null
    Free = Free
    MaxId = 2
    Calls = {"start", "status", "close"}
SYMMETRY Symmetry
INVARIANTS TypeOK HandleOutlivesUse OnlyStoreAfterFree
    ResultBelongsToRequest
CHECK_DEADLOCK FALSE
