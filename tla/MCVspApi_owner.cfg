SPECIFICATION Spec
CONSTANTS
    Handles = {h1}
    Jobs = {j1, j2}
    NoJob = NoJob
    Apps = {a1, a2}
    Recs = {r1, r2, r3}
    Null = Null
INVARIANTS TypeOK RecordsOwned NoUseAfterFree ResultBelongsToRequest
CHECK_DEADLOCK FALSE
