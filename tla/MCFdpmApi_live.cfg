SPECIFICATION FairSpec
CONSTANTS
    Handles = {h1}
    Jobs = {j1}
    NoJob = NoJob
    Apps = {a1}
    Recs = {r1, r2}
    Null = Null
    Free = Free
    MaxId = 1
    Calls = {"start", "status", "cancel", "close"}
PROPERTIES EveryCallReturns EveryRequestSettled
CHECK_DEADLOCK FALSE
