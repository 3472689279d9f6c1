SPECIFICATION FairSpec
CONSTANTS
    Handles = {h1}
    Jobs = {j1}
    NoJob = NoJob
PROPERTIES InitReturns
CHECK_DEADLOCK FALSE
