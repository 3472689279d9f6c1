SPECIFICATION Spec
CONSTANTS
    Handles = {h1}
    Jobs = {j1}
    NoJob = NoJob
    Apps = {a1}
    Recs = {r1}
    Null = Null
    Free = Free
    MaxId = 1
    Calls = {"start", "cancel"}
SYMMETRY Symmetry
INVARIANTS CancelHasRecord
CHECK_DEADLOCK FALSE
