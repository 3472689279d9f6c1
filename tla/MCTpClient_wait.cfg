SPECIFICATION FairSpec
CONSTANTS
    Hdl = h1
    Handles = {h1}
    Jobs = {j1, j2}
    NoJob = NoJob
    Programs <- MCUds
PROPERTIES WaitEnds
CHECK_DEADLOCK FALSE
