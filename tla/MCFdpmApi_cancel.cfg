SPECIFICATION Spec
CONSTANTS
    Handles = {h1, h2}
    Jobs = {j1}
    NoJob = NoJob
    Apps = {a1}
    Recs = {r1, r2}
    Null = Null
    Free = Free
    MaxId = 2
    Calls = {"start", "cancel", "close"}
SYMMETRY Symmetry
INVARIANTS HandleOutlivesUse CallsOnLiveHandle RecordsOwned
    CancelHitsOwnJob
PROPERTIES RequestsKept
CHECK_DEADLOCK FALSE
