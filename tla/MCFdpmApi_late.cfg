SPECIFICATION Spec
CONSTANTS
    Handles = {h1}
    Jobs = {j1, j2}
    NoJob = NoJob
    Apps = {a1}
    Recs = {r1, r2}
    Null = Null
    Free = Free
    MaxId = 1
    Calls = {"start", "cancel"}
SYMMETRY Symmetry
INVARIANTS ResultBelongsToRequest
CHECK_DEADLOCK FALSE
